---- MODULE Spec2Model ----
(***************************************************************************)
(* Model of src/app/page.tsx: the note parser (noteToFrequency), the song  *)
(* player (playSong) and the song editor (SongManager / Composer).         *)
(*                                                                         *)
(* Strings are sequences of one-character strings, so that the regular     *)
(* expression, trim, split, parseInt and parseFloat are computed character *)
(* by character as the JavaScript does.                                    *)
(*                                                                         *)
(* Times and durations are fixed-point integers in units of 1/Scale        *)
(* second.  Every duration literal of the model has at most one fractional *)
(* digit and is a multiple of 0.5, so the sums are exact both here and in  *)
(* IEEE doubles.                                                           *)
(***************************************************************************)
EXTENDS Integers, Sequences, FiniteSets, TLC

VARIABLES
    noteIn,          \* the token handed to noteToFrequency
    noteOut,         \* what noteToFrequency did with it
    calls,           \* one record per playSong invocation, in order
    now,             \* wall clock, in whole seconds
    songs,           \* the songs query result: id -> song record or NoSong
    selectedSongId,  \* SongManager's useState
    composer         \* the mounted Composer's state, or Unmounted

vars == <<noteIn, noteOut, calls, now, songs, selectedSongId, composer>>

(***************************************************************************)
(* Bounds                                                                  *)
(***************************************************************************)
MaxTokLen == 4
MaxPairs == 3
MaxCalls == 2
MaxNow == 1

(***************************************************************************)
(* Characters                                                              *)
(***************************************************************************)
Digits == {"0", "1", "2", "3", "4", "5", "6", "7", "8", "9"}

DigitVal(c) ==
    CASE c = "0" -> 0 [] c = "1" -> 1 [] c = "2" -> 2 [] c = "3" -> 3
      [] c = "4" -> 4 [] c = "5" -> 5 [] c = "6" -> 6 [] c = "7" -> 7
      [] c = "8" -> 8 [] c = "9" -> 9

\* The characters \s matches, among those the model uses.
WhiteSpace == {" ", "\n"}

\* s from position i on.
Drop(s, i) == SubSeq(s, i, Len(s))

IsPrefix(p, s) == Len(p) <= Len(s) /\ SubSeq(s, 1, Len(p)) = p

(***************************************************************************)
(* noteToFrequency                                                         *)
(***************************************************************************)
NoMatch == [matched |-> FALSE]

\* note.match(/^([A-G])(#|b)?(\d+)$/): the three groups, or null.
NoteMatch_NoEndAnchor(note) ==
    IF Len(note) >= 1 /\ note[1] \in {"A", "B", "C", "D", "E", "F", "G"}
    THEN LET hasAcc == Len(note) >= 2 /\ note[2] \in {"#", "b"}
             from   == IF hasAcc THEN 3 ELSE 2
             rest   == Drop(note, from)
             nd     == IF \E i \in 1..Len(rest) : rest[i] \notin Digits
                       THEN (CHOOSE i \in 1..Len(rest) :
                                /\ rest[i] \notin Digits
                                /\ \A j \in 1..(i - 1) : rest[j] \in Digits) - 1
                       ELSE Len(rest)
         IN  IF nd >= 1
             THEN [matched |-> TRUE, pitch |-> note[1],
                   accidental |-> IF hasAcc THEN note[2] ELSE "",
                   oct |-> SubSeq(rest, 1, nd)]
             ELSE NoMatch
    ELSE NoMatch

NoteMatch(note) ==
    IF Len(note) >= 1 /\ note[1] \in {"A", "B", "C", "D", "E", "F", "G"}
    THEN LET hasAcc == Len(note) >= 2 /\ note[2] \in {"#", "b"}
             from   == IF hasAcc THEN 3 ELSE 2
             rest   == Drop(note, from)
         IN  IF Len(rest) >= 1 /\ \A i \in 1..Len(rest) : rest[i] \in Digits
             THEN [matched |-> TRUE, pitch |-> note[1],
                   accidental |-> IF hasAcc THEN note[2] ELSE "",
                   oct |-> rest]
             ELSE NoMatch
    ELSE NoMatch

\* const semitones: Record<string, number>
semitones_BSharp ==
    [p \in {"A", "B", "C", "D", "E", "F", "G"} |->
        CASE p = "C" -> 0 [] p = "D" -> 2 [] p = "E" -> 4 [] p = "F" -> 5
          [] p = "G" -> 7 [] p = "A" -> 9 [] p = "B" -> 12]

semitones ==
    [p \in {"A", "B", "C", "D", "E", "F", "G"} |->
        CASE p = "C" -> 0 [] p = "D" -> 2 [] p = "E" -> 4 [] p = "F" -> 5
          [] p = "G" -> 7 [] p = "A" -> 9 [] p = "B" -> 11]

\* parseInt(oct, 10) of a string of decimal digits.
RECURSIVE parseInt(_)
parseInt(ds) ==
    IF ds = <<>> THEN 0
    ELSE 10 * parseInt(SubSeq(ds, 1, Len(ds) - 1)) + DigitVal(ds[Len(ds)])

\* 440 * Math.pow(2, diff / 12), kept exact: 440 * 2^octaves * (2^(1/12))^steps
\* with 0 <= steps < 12.  The pair determines diff and is determined by it.
Hertz(diff) == [a4 |-> 440, octaves |-> diff \div 12, steps |-> diff % 12]

noteToFrequency(note) ==
    LET m == NoteMatch(note)
    IN  IF ~m.matched
        THEN [threw |-> TRUE, error |-> "Invalid note", note |-> note]
        ELSE LET sem0   == semitones[m.pitch]
                 sem1   == IF m.accidental = "#" THEN sem0 + 1 ELSE sem0
                 sem    == IF m.accidental = "b" THEN sem1 - 1 ELSE sem1
                 octave == parseInt(m.oct)
                 midi   == (octave + 1) * 12 + sem
                 diff   == midi - 69
             IN  [threw |-> FALSE, freq |-> Hertz(diff)]

(***************************************************************************)
(* Numbers: the doubles the player computes with                           *)
(***************************************************************************)
Scale == 10

Fin(n) == [k |-> "fin", v |-> n]
NaN == [k |-> "nan", v |-> 0]
PosInf == [k |-> "inf", v |-> 0]
NegInf == [k |-> "ninf", v |-> 0]

\* a + b on doubles.
Plus(a, b) ==
    CASE a.k = "nan" \/ b.k = "nan" -> NaN
      [] a.k = "fin" /\ b.k = "fin" -> Fin(a.v + b.v)
      [] a.k = "fin" -> b
      [] b.k = "fin" -> a
      [] a.k = b.k -> a
      [] OTHER -> NaN

\* The length of the run of decimal digits s starts with.
RECURSIVE DigitRun(_)
DigitRun(s) ==
    IF s # <<>> /\ s[1] \in Digits THEN 1 + DigitRun(Drop(s, 2)) ELSE 0

RECURSIVE SkipWhiteSpace(_)
SkipWhiteSpace(s) ==
    IF s # <<>> /\ s[1] \in WhiteSpace THEN SkipWhiteSpace(Drop(s, 2)) ELSE s

\* parseFloat(s): leading white space is skipped, then the longest prefix that
\* is a decimal literal is converted and whatever follows it is ignored; NaN
\* when there is no such prefix.  No literal of the model has an exponent
\* part or a second fractional digit.
parseFloat(s) ==
    LET s1    == SkipWhiteSpace(s)
        neg   == s1 # <<>> /\ s1[1] = "-"
        signd == s1 # <<>> /\ s1[1] \in {"+", "-"}
        body  == IF signd THEN Drop(s1, 2) ELSE s1
        ni    == DigitRun(body)
        dot   == Len(body) > ni /\ body[ni + 1] = "."
        frac  == IF dot THEN Drop(body, ni + 2) ELSE <<>>
        nf    == DigitRun(frac)
        mag   == Scale * parseInt(SubSeq(body, 1, ni))
                   + (IF nf > 0 THEN DigitVal(frac[1]) ELSE 0)
    IN  IF IsPrefix(<<"I", "n", "f", "i", "n", "i", "t", "y">>, body)
        THEN IF neg THEN NegInf ELSE PosInf
        ELSE IF ni + nf = 0 THEN NaN
        ELSE Fin(IF neg THEN 0 - mag ELSE mag)

(***************************************************************************)
(* data.trim().split(/\s+/)                                                *)
(***************************************************************************)
RECURSIVE TrimEnd(_)
TrimEnd(s) ==
    IF s # <<>> /\ s[Len(s)] \in WhiteSpace
    THEN TrimEnd(SubSeq(s, 1, Len(s) - 1))
    ELSE s

trim(s) == TrimEnd(SkipWhiteSpace(s))

\* String.prototype.split with the separator /\s+/: the pieces between the
\* runs of white space.  A string holding no separator is its own single
\* piece, the empty string included.
RECURSIVE SplitFrom(_, _, _)
SplitFrom(s, cur, acc) ==
    IF s = <<>> THEN Append(acc, cur)
    ELSE IF s[1] \in WhiteSpace
         THEN SplitFrom(SkipWhiteSpace(s), <<>>, Append(acc, cur))
         ELSE SplitFrom(Drop(s, 2), Append(cur, s[1]), acc)

split(s) == SplitFrom(s, <<>>, <<>>)

(***************************************************************************)
(* The Web Audio calls playSong makes                                      *)
(***************************************************************************)
\* What a time argument makes start, stop and setValueAtTime throw: a
\* TypeError for a non-finite double, a RangeError for a negative one.
TimeError(x) ==
    IF x.k # "fin" THEN "TypeError"
    ELSE IF x.v < 0 THEN "RangeError"
    ELSE "none"

NotSet == [k |-> "unset", v |-> 0]

\* new AudioCtx() at wall-clock time at, on a page whose earlier invocations
\* are made: a context of its own, its clock at 0 and no node in it.
AudioCtx_Shared(made, at) ==
    IF \E j \in 1..Len(made) : made[j].created
    THEN LET j == CHOOSE j \in 1..Len(made) :
                    /\ made[j].created
                    /\ \A h \in 1..(j - 1) : ~made[h].created
         IN  [currentTime |-> Fin((at - made[j].at) * Scale),
              nodes |-> made[Len(made)].nodes]
    ELSE [currentTime |-> Fin(0), nodes |-> <<>>]

AudioCtx(made, at) == [currentTime |-> Fin(0), nodes |-> <<>>]

\* What String() makes of a missing array element, as parseFloat reads it.
undefined == <<"u", "n", "d", "e", "f", "i", "n", "e", "d">>

\* The body of the for loop, from the pair at parts[i] (1-based) on, with the
\* time cursor at t and the oscillators created so far in nodes.
RECURSIVE Loop(_, _, _, _)
Loop(parts, i, t, nodes) ==
    IF i > Len(parts) THEN [threw |-> FALSE, error |-> "none", nodes |-> nodes]
    ELSE
      LET note == parts[i]
          dur  == parseFloat(IF i + 1 <= Len(parts) THEN parts[i + 1]
                             ELSE undefined)
          f    == noteToFrequency(note)
          osc  == [frequency |-> IF f.threw THEN Hertz(0) ELSE f.freq,
                   type |-> "square", gainAt |-> NotSet,
                   start |-> NotSet, stop |-> NotSet]
          end  == Plus(t, dur)
      IN  IF f.threw
          THEN [threw |-> TRUE, error |-> f.error, nodes |-> nodes]
          ELSE IF TimeError(t) # "none"
          THEN [threw |-> TRUE, error |-> TimeError(t),
                nodes |-> Append(nodes, osc)]
          ELSE IF TimeError(end) # "none"
          THEN [threw |-> TRUE, error |-> TimeError(end),
                nodes |-> Append(nodes,
                            [osc EXCEPT !.gainAt = t, !.start = t])]
          ELSE Loop(parts, i + 2, end,
                    Append(nodes, [osc EXCEPT !.gainAt = t, !.start = t,
                                              !.stop = end]))

\* parts.length % 2 !== 0
Unpaired_TooShort(parts) == Len(parts) < 2

Unpaired(parts) == Len(parts) % 2 # 0

PairsAlert == "Data must be in NOTE DURATION pairs"
ErrorAlert(e) == <<"Error playing song: ", e>>

\* playSong(data) at wall-clock time at, with the AudioContext constructor
\* present and working (audio) or not, after the invocations made.  alerts
\* are the alert() calls made, escaped whether an exception left the function.
playSong(data, audio, at, made) ==
    LET parts == split(trim(data))
        base  == [data |-> data, audio |-> audio, at |-> at, parts |-> parts,
                  alerts |-> <<>>, created |-> FALSE, nodes |-> <<>>,
                  escaped |-> FALSE]
    IN  IF Unpaired(parts)
        THEN [base EXCEPT !.alerts = <<PairsAlert>>]
        ELSE IF ~audio
        THEN [base EXCEPT !.alerts = <<ErrorAlert("TypeError")>>]
        ELSE LET ctx == AudioCtx(made, at)
                 r   == Loop(parts, 1, ctx.currentTime, ctx.nodes)
             IN  [base EXCEPT !.created = TRUE, !.nodes = r.nodes,
                              !.alerts = IF r.threw
                                         THEN <<ErrorAlert(r.error)>>
                                         ELSE <<>>]

\* The tones an invocation started on the audio backend.
Tones(c) == SelectSeq(c.nodes, LAMBDA n : n.start # NotSet)

(***************************************************************************)
(* Inputs                                                                  *)
(***************************************************************************)
\* The characters note tokens are drawn from.
NoteAlphabet ==
    {"A", "B", "C", "D", "E", "F", "G", "H", "c", "#", "b", "0", "1", "4"}

\* Every string over alphabet of length at most n.
StringsUpTo(alphabet, n) == UNION {[1..k -> alphabet] : k \in 0..n}

NoteInputs == StringsUpTo(NoteAlphabet, MaxTokLen)

\* Song tokens: two notes of the grammar and one outside it; the durations
\* 0.5, 0, -0.5, a non-numeric one and an infinite one.
NoteToks == {<<"C", "4">>, <<"A", "4">>, <<"H", "4">>}
DurToks ==
    {<<"0", ".", "5">>, <<"0">>, <<"-", "0", ".", "5">>, <<"x">>,
     <<"I", "n", "f", "i", "n", "i", "t", "y">>}

RECURSIVE Join(_, _)
Join(toks, sep) ==
    IF toks = <<>> THEN <<>>
    ELSE IF Len(toks) = 1 THEN toks[1]
    ELSE toks[1] \o sep \o Join(Tail(toks), sep)

\* The tokens laid out as the text of a song: separated by single spaces, or
\* by longer runs of white space with white space around the whole.
Layouts == {"plain", "padded"}
Render(toks, layout) ==
    IF layout = "plain" THEN Join(toks, <<" ">>)
    ELSE <<"\n">> \o Join(toks, <<" ", "\n">>) \o <<" ">>

RECURSIVE Flatten(_)
Flatten(ps) ==
    IF ps = <<>> THEN <<>> ELSE <<ps[1][1], ps[1][2]>> \o Flatten(Tail(ps))

\* Songs of at most MaxPairs pairs, with or without one unpaired token after
\* them.
SongTexts ==
    { Render(Flatten(ps) \o rest, layout) :
        ps \in StringsUpTo(NoteToks \X DurToks, MaxPairs),
        rest \in {<<>>, <<<<"C", "4">>>>},
        layout \in Layouts }

(***************************************************************************)
(* The state before anything has run                                       *)
(***************************************************************************)
SongIds == {"s1", "s2"}
NoSong == [exists |-> FALSE]
Unmounted == [mounted |-> FALSE]

Idle ==
    /\ noteIn = <<>>
    /\ noteOut = [called |-> FALSE]
    /\ calls = <<>>
    /\ now = 0
    /\ songs = [s \in SongIds |-> NoSong]
    /\ selectedSongId = "null"
    /\ composer = Unmounted

(***************************************************************************)
(* SpecNote: noteToFrequency called once, on any token                      *)
(***************************************************************************)
Resolve ==
    /\ ~noteOut.called
    /\ \E note \in NoteInputs :
         /\ noteIn' = note
         /\ noteOut' = [called |-> TRUE, result |-> noteToFrequency(note)]
    /\ UNCHANGED <<calls, now, songs, selectedSongId, composer>>

SpecNote == Idle /\ [][Resolve]_vars

(***************************************************************************)
(* SpecPlay: one playSong invocation on any song text                      *)
(***************************************************************************)
PlayAny ==
    /\ calls = <<>>
    /\ \E data \in SongTexts, audio \in BOOLEAN :
         calls' = <<playSong(data, audio, now, calls)>>
    /\ UNCHANGED <<noteIn, noteOut, now, songs, selectedSongId, composer>>

SpecPlay == Idle /\ [][PlayAny]_vars

(***************************************************************************)
(* SpecOverlap: several playSong invocations on one page, the clock        *)
(* advancing between them                                                  *)
(***************************************************************************)
OverlapTexts ==
    { Render(toks, "plain") : toks \in
        { <<>>,
          << <<"C", "4">> >>,
          << <<"C", "4">>, <<"0", ".", "5">> >>,
          << <<"A", "4">>, <<"0", ".", "5">>, <<"C", "4">>, <<"0", ".", "5">> >>,
          << <<"A", "4">>, <<"0", ".", "5">>, <<"H", "4">>, <<"0", ".", "5">> >>,
          << <<"C", "4">>, <<"x">> >> } }

Tick ==
    /\ now < MaxNow
    /\ now' = now + 1
    /\ UNCHANGED <<noteIn, noteOut, calls, songs, selectedSongId, composer>>

PlayAgain ==
    /\ Len(calls) < MaxCalls
    /\ \E data \in OverlapTexts, audio \in BOOLEAN :
         calls' = Append(calls, playSong(data, audio, now, calls))
    /\ UNCHANGED <<noteIn, noteOut, now, songs, selectedSongId, composer>>

SpecOverlap == Idle /\ [][Tick \/ PlayAgain]_vars

(***************************************************************************)
(* SpecEditor: SongManager and Composer                                    *)
(*                                                                         *)
(* Each title and data carries, beside its text, the id of the song that   *)
(* was selected when the text was loaded or typed (titleOf, dataOf): a     *)
(* history of where the text came from, which no action reads.             *)
(***************************************************************************)
Titles == {"Untitled", "Tune"}
EditorTexts ==
    { <<>>, Render(<< <<"C", "4">>, <<"0", ".", "5">> >>, "plain") }

\* const selectedSong = songs.find((s) => s.id === selectedSongId) || null
selectedSong(ss, sel) ==
    IF sel \in SongIds /\ ss[sel].exists THEN sel ELSE "null"

\* useState(song.title), useState(song.data) of a Composer being mounted.
Mount(ss, sid) ==
    [mounted |-> TRUE, title |-> ss[sid].title, data |-> ss[sid].data,
     titleOf |-> sid, dataOf |-> sid]

\* {selectedSong ? <Composer song={selectedSong} /> : ...}: a Composer that
\* was on screen keeps its state, whatever song it is now given; one that
\* was not is mounted on the song.
Rendered(ss, sel, was) ==
    IF selectedSong(ss, sel) = "null" THEN Unmounted
    ELSE IF was.mounted THEN was
    ELSE Mount(ss, sel)

\* id() is an id no song has.  The new id is selected and the song reaches
\* the query result either in one render (batched: a Composer on screen keeps
\* its state) or in two, the first with no selected song to show (the
\* Composer is unmounted, then mounted on the new song).
createSong ==
    \E newId \in SongIds, batched \in BOOLEAN :
      /\ ~songs[newId].exists
      /\ songs' = [songs EXCEPT ![newId] =
                     [exists |-> TRUE, title |-> "Untitled", data |-> <<>>,
                      titleOf |-> newId, dataOf |-> newId]]
      /\ selectedSongId' = newId
      /\ composer' = Rendered(songs', selectedSongId',
                              IF batched THEN composer ELSE Unmounted)
      /\ UNCHANGED <<noteIn, noteOut, calls, now>>

\* onClick={() => setSelectedSongId(song.id)} on a song of the list.
selectSong ==
    \E sid \in SongIds :
      /\ songs[sid].exists
      /\ selectedSongId' = sid
      /\ composer' = Rendered(songs, selectedSongId', composer)
      /\ UNCHANGED <<noteIn, noteOut, calls, now, songs>>

deleteSong ==
    \E sid \in SongIds :
      /\ songs[sid].exists
      /\ songs' = [songs EXCEPT ![sid] = NoSong]
      /\ selectedSongId' = IF sid = selectedSongId THEN "null"
                           ELSE selectedSongId
      /\ composer' = Rendered(songs', selectedSongId', composer)
      /\ UNCHANGED <<noteIn, noteOut, calls, now>>

\* onChange={(e) => setTitle(e.target.value)}
setTitle ==
    /\ composer.mounted
    /\ \E v \in Titles :
         composer' = [composer EXCEPT !.title = v, !.titleOf = selectedSongId]
    /\ UNCHANGED <<noteIn, noteOut, calls, now, songs, selectedSongId>>

\* onChange={(e) => setData(e.target.value)}
setData ==
    /\ composer.mounted
    /\ \E v \in EditorTexts :
         composer' = [composer EXCEPT !.data = v, !.dataOf = selectedSongId]
    /\ UNCHANGED <<noteIn, noteOut, calls, now, songs, selectedSongId>>

\* db.transact(db.tx.songs[song.id].update({ title, data }))
save ==
    /\ composer.mounted
    /\ songs' = [songs EXCEPT ![selectedSong(songs, selectedSongId)] =
                   [exists |-> TRUE,
                    title |-> composer.title, data |-> composer.data,
                    titleOf |-> composer.titleOf, dataOf |-> composer.dataOf]]
    /\ composer' = Rendered(songs', selectedSongId, composer)
    /\ UNCHANGED <<noteIn, noteOut, calls, now, selectedSongId>>

\* onClick={() => playSong(data)} of the Composer.
composerPlay ==
    /\ composer.mounted
    /\ Len(calls) < MaxCalls
    /\ \E audio \in BOOLEAN :
         calls' = Append(calls, playSong(composer.data, audio, now, calls))
    /\ UNCHANGED <<noteIn, noteOut, now, songs, selectedSongId, composer>>

SpecEditor ==
    Idle /\ [][createSong \/ selectSong \/ deleteSong \/ setTitle \/ setData
                 \/ save \/ composerPlay]_vars

(***************************************************************************)
(* What the specification says of a song text, read off the text itself    *)
(***************************************************************************)
\* The positions where a maximal run of non-white-space characters starts.
WordStarts(s) ==
    {i \in 1..Len(s) : s[i] \notin WhiteSpace /\ (i = 1 \/ s[i - 1] \in WhiteSpace)}

WordEnd(s, i) ==
    CHOOSE j \in i..Len(s) :
        /\ \A h \in i..j : s[h] \notin WhiteSpace
        /\ (j = Len(s) \/ s[j + 1] \in WhiteSpace)

\* The white-space-separated tokens of s, in order.
Words(s) ==
    [n \in 1..Cardinality(WordStarts(s)) |->
        LET i == CHOOSE i \in WordStarts(s) :
                    Cardinality({h \in WordStarts(s) : h < i}) = n - 1
        IN  SubSeq(s, i, WordEnd(s, i))]

\* <Letter A-G><optional accidental # or b><one or more digits>
InGrammar(tok) ==
    /\ Len(tok) >= 2
    /\ tok[1] \in {"A", "B", "C", "D", "E", "F", "G"}
    /\ LET d == IF tok[2] \in {"#", "b"} THEN 3 ELSE 2
       IN  d <= Len(tok) /\ \A i \in d..Len(tok) : tok[i] \in Digits

\* A non-negative finite decimal number: digits with at most one point.
GoodDuration(tok) ==
    /\ \A i \in 1..Len(tok) : tok[i] \in Digits \cup {"."}
    /\ \E i \in 1..Len(tok) : tok[i] \in Digits
    /\ Cardinality({i \in 1..Len(tok) : tok[i] = "."}) <= 1

NWords(s) == Cardinality(WordStarts(s))

\* The (note, duration) pairs of a text, by the number of whole pairs.
NPairs(s) == NWords(s) \div 2
NoteOf(s, k) == Words(s)[2 * k - 1]
DurOf(s, k) == Words(s)[2 * k]

HasBadNote(s) == \E k \in 1..NPairs(s) : ~InGrammar(NoteOf(s, k))
HasBadDuration(s) == \E k \in 1..NPairs(s) : ~GoodDuration(DurOf(s, k))
OddCount(s) == NWords(s) % 2 = 1

(***************************************************************************)
(* Claims about noteToFrequency (SpecNote)                                 *)
(***************************************************************************)
BaseOffset(letter) ==
    CASE letter = "C" -> 0 [] letter = "D" -> 2 [] letter = "E" -> 4
      [] letter = "F" -> 5 [] letter = "G" -> 7 [] letter = "A" -> 9
      [] letter = "B" -> 11

\* The octave number a token of the grammar ends with.
OctaveOf(tok) ==
    LET d == IF tok[2] \in {"#", "b"} THEN 3 ELSE 2
        n == Len(tok) - d + 1
        Pow10[e \in 0..n] == IF e = 0 THEN 1 ELSE 10 * Pow10[e - 1]
        Sum[h \in 0..n] ==
            IF h = 0 THEN 0
            ELSE Sum[h - 1] + DigitVal(tok[d + h - 1]) * Pow10[n - h]
    IN  Sum[n]

AccidentalOf(tok) ==
    IF tok[2] = "#" THEN 1 ELSE IF tok[2] = "b" THEN 0 - 1 ELSE 0

SemitoneIndex(tok) ==
    (OctaveOf(tok) + 1) * 12 + BaseOffset(tok[1]) + AccidentalOf(tok)

\* C6: for every token of the grammar the resolver returns the frequency of
\* the semitone index (octave+1)*12 + base_offset(letter) + accidental, that
\* is 440 Hz times 2 to the (index-69)/12.  The index, and so the frequency,
\* is a function of that sum alone: A4 (index 69) gives 440 Hz exactly, one
\* octave more gives twelve semitones more, and two spellings of one index
\* (C#4, Db4) give one frequency.
C6_SemitoneIndex ==
    (noteOut.called /\ InGrammar(noteIn)) =>
        /\ ~noteOut.result.threw
        /\ noteOut.result.freq = Hertz(SemitoneIndex(noteIn) - 69)
        /\ noteOut.result.freq.a4 = 440
        /\ 12 * noteOut.result.freq.octaves + noteOut.result.freq.steps + 69
             = SemitoneIndex(noteIn)

\* Db4 resolved: semitone 61, eight semitones below A4, the frequency C#4 has.
C6_Witness ==
    /\ noteOut.called
    /\ noteIn = <<"D", "b", "4">>
    /\ ~noteOut.result.threw
    /\ noteOut.result.freq = [a4 |-> 440, octaves |-> 0 - 1, steps |-> 4]
    /\ SemitoneIndex(<<"C", "#", "4">>) = SemitoneIndex(noteIn)

\* C7: the resolver throws the invalid-note error, and returns no frequency,
\* for every token outside the grammar <A-G><optional # or b><digits>; the
\* empty token, H4, c4, C##4 and C are among them.
C7_InvalidNoteRejected ==
    (noteOut.called /\ ~InGrammar(noteIn)) =>
        /\ noteOut.result.threw
        /\ noteOut.result.error = "Invalid note"
        /\ noteOut.result.note = noteIn

\* The double accidental C##4 handed to the resolver and rejected.
C7_Witness ==
    /\ noteOut.called
    /\ noteIn = <<"C", "#", "#", "4">>
    /\ ~InGrammar(noteIn)
    /\ noteOut.result.threw

(***************************************************************************)
(* Claims about one playSong invocation (SpecPlay)                         *)
(***************************************************************************)
Invocations == {calls[i] : i \in 1..Len(calls)}

\* C1: a song with an invalid pair anywhere in it (a note outside the
\* grammar, a bad duration) starts no tone at all, whatever precedes the
\* invalid pair.
C1_AllOrNothing ==
    \A c \in Invocations :
        (HasBadNote(c.data) \/ HasBadDuration(c.data)) => Tones(c) = <<>>

\* The sum of the durations of pairs 1..n of a text, in 1/Scale seconds.
RECURSIVE DurSum(_, _)
DurSum(s, n) ==
    IF n = 0 THEN 0 ELSE DurSum(s, n - 1) + parseFloat(DurOf(s, n)).v

\* C2: when playSong schedules a song (it raises no error and starts
\* tones), tone k starts at the origin plus the durations of the pairs
\* before it and stops its own duration later, the first at the origin
\* itself, and the start times never decrease in pair order.
C2_CumulativeStarts ==
    \A c \in Invocations :
        (c.alerts = <<>> /\ Tones(c) # <<>>) =>
            /\ Len(Tones(c)) = NPairs(c.data)
            /\ Tones(c)[1].start = Fin(0)
            /\ \A k \in 1..Len(Tones(c)) :
                 /\ Tones(c)[k].start = Fin(DurSum(c.data, k - 1))
                 /\ Tones(c)[k].stop = Fin(DurSum(c.data, k))
            /\ \A k \in 1..(Len(Tones(c)) - 1) :
                 Tones(c)[k].start.v <= Tones(c)[k + 1].start.v

\* C3: a song with an odd number of tokens is rejected with the pairing
\* message, shown once by alert; no audio context is made, no oscillator is
\* created, no tone starts and no exception leaves playSong.
C3_OddRejected ==
    \A c \in Invocations :
        OddCount(c.data) =>
            /\ c.alerts = <<PairsAlert>>
            /\ ~c.created
            /\ c.nodes = <<>>
            /\ ~c.escaped

\* "C4 0.5 A4 0.5 C4" (or any three or more tokens, odd in number) played.
C3_Witness ==
    \E c \in Invocations :
        /\ OddCount(c.data)
        /\ NWords(c.data) >= 3
        /\ c.audio
        /\ c.alerts = <<PairsAlert>>
        /\ Tones(c) = <<>>

\* C4: playing the empty text, or one of white space only, succeeds: no
\* tone and no message.
C4_EmptySongSilent ==
    \A c \in Invocations :
        (c.audio /\ \A i \in 1..Len(c.data) : c.data[i] \in WhiteSpace) =>
            /\ c.alerts = <<>>
            /\ Tones(c) = <<>>

\* C5: with the audio backend there and every note in the grammar, a song
\* of whole pairs fails with an error message when one of its durations is
\* not a non-negative finite number, and raises none when they all are.
C5_BadDurationRejected ==
    \A c \in Invocations :
        (c.audio /\ ~OddCount(c.data) /\ NPairs(c.data) >= 1
           /\ ~HasBadNote(c.data)) =>
            (HasBadDuration(c.data) <=> c.alerts # <<>>)

\* C8: no exception leaves playSong; it shows exactly one message when the
\* invocation fails (odd token count, invalid note, bad duration, no audio
\* backend) and none when it succeeds.
Fails(c) ==
    \/ OddCount(c.data)
    \/ HasBadNote(c.data)
    \/ HasBadDuration(c.data)
    \/ ~c.audio

C8_OneMessageIffFailure ==
    \A c \in Invocations :
        /\ ~c.escaped
        /\ Len(c.alerts) = (IF Fails(c) THEN 1 ELSE 0)

(***************************************************************************)
(* Claims about overlapping invocations (SpecOverlap)                      *)
(*                                                                         *)
(* playSong is synchronous and the page runs one handler at a time, so two *)
(* invocations interleave only as wholes, the clock moving between them.   *)
(***************************************************************************)
\* C9: each invocation does exactly what it would do alone on a fresh page
\* at its own time: the same context, oscillators, start and stop times and
\* messages, whatever was played before it and whenever.
C9_IndependentInvocations ==
    \A i \in 1..Len(calls) :
        calls[i] = playSong(calls[i].data, calls[i].audio, calls[i].at, <<>>)

\* Two invocations at different times, each with tones started.
C9_Witness ==
    /\ Len(calls) = 2
    /\ calls[1].at < calls[2].at
    /\ Tones(calls[1]) # <<>>
    /\ Len(Tones(calls[2])) = 2
    /\ Tones(calls[2])[1].start = Fin(0)

(***************************************************************************)
(* Claims about the editor (SpecEditor)                                    *)
(***************************************************************************)
\* The Composer's title (data) is the selected song's: loaded from it, typed
\* while it was selected, or the very text the song's record holds.
TitleIsSelected ==
    \/ composer.titleOf = selectedSongId
    \/ composer.title = songs[selectedSongId].title

DataIsSelected ==
    \/ composer.dataOf = selectedSongId
    \/ composer.data = songs[selectedSongId].data

\* C10: Save writes to the selected song only a title and data that are that
\* song's (loaded from it, or typed while it was selected), and Play in the
\* Composer plays that song's data: text loaded from another song never
\* reaches this song's record or is played for it.
C10_BufferBelongsToSelected ==
    [][ /\ save => (TitleIsSelected /\ DataIsSelected)
        /\ composerPlay => DataIsSelected ]_vars

====
